---- MODULE Spec2Model ----
(***************************************************************************)
(* Model of printer/print.go: PrintFile assembles the implementation and   *)
(* test buffers (generate), formats the implementation file in a           *)
(* goroutine (goformat) and the test file inline (format), and joins the   *)
(* two results through a channel of capacity one.                          *)
(*                                                                         *)
(* Text is modelled as sequences.  An import string is a sequence of       *)
(* characters (DQ is the double quote, BS the backslash; "M", "F", ...     *)
(* stand for runs of ordinary characters).  A buffer is a sequence of      *)
(* lines, each line a record [kind, text].                                 *)
(***************************************************************************)
EXTENDS Integers, Sequences, FiniteSets, TLC

\* ---------------------------------------------------------------- bounds
MaxImports == 2

\* ------------------------------------------------------------ characters
DQ == "dq"
BS == "bs"
SP == " "

\* "github.com/algorand/msgp/msgp" (print.go:105), without quotes
RuntimeImport == <<"M">>

\* ---------------------------------------------------------------- errors
Nil == [stage |-> "nil", path |-> <<>>]
NoRet == [stage |-> "none", path |-> <<>>]
Err(stage, path) == [stage |-> stage, path |-> path]

\* ----------------------------------------------------------------- lines
Line(kind, text) == [kind |-> kind, text |-> text]
NoBuf == <<Line("nilbuffer", <<>>)>>

RECURSIVE Join(_, _)
Join(elems, sep) ==
    IF Len(elems) = 0 THEN <<>>
    ELSE IF Len(elems) = 1 THEN elems[1]
    ELSE elems[1] \o sep \o Join(Tail(elems), sep)

\* fmt's %q verb (strconv.Quote): wrap in double quotes, escape DQ and BS
RECURSIVE Escape(_)
Escape(s) ==
    IF Len(s) = 0 THEN <<>>
    ELSE (IF s[1] \in {DQ, BS} THEN <<BS, s[1]>> ELSE <<s[1]>>) \o Escape(Tail(s))

Quote(s) == <<DQ>> \o Escape(s) \o <<DQ>>

\* ------------------------------------------------------------- headers
writePkgHeader_markerFirst(b, name) ==
    b \o <<Line("marker", <<>>), Line("package", name), Line("blank", <<>>)>>

writePkgHeader(b, name) ==
    b \o <<Line("package", name), Line("marker", <<>>), Line("blank", <<>>)>>

RenderImport(im) ==
    IF im[Len(im)] = DQ THEN im ELSE Quote(im)

writeImportHeader(b, imports) ==
    b \o <<Line("import(", <<>>)>>
      \o [i \in 1..Len(imports) |-> Line("import", RenderImport(imports[i]))]
      \o <<Line(")", <<>>), Line("blank", <<>>)>>

writeBuildHeader(b, buildHeaders) ==
    b \o <<Line("//go:build", Join(buildHeaders, <<SP>>)),
           Line("// +build", Join(buildHeaders, <<SP>>)),
           Line("blank", <<>>)>>

\* ------------------------------------------------------------ dedupImports
RECURSIVE dedupMap(_, _, _)
dedupMap(imp, i, m) ==
    IF i > Len(imp) THEN m ELSE dedupMap(imp, i + 1, m \cup {imp[i]})

\* iteration over a Go map visits every key once, in an unspecified order
MapRange(m) ==
    {r \in [1..Cardinality(m) -> m] : \A i, j \in DOMAIN r : r[i] = r[j] => i = j}

dedupImports_keepsAll(imp) == {imp}

dedupImports(imp) == MapRange(dedupMap(imp, 1, {}))

\* ------------------------------------------------------------------ paths
HasSuffix(s, suffix) ==
    /\ Len(s) >= Len(suffix)
    /\ SubSeq(s, Len(s) - Len(suffix) + 1, Len(s)) = suffix

TrimSuffix(s, suffix) ==
    IF HasSuffix(s, suffix) THEN SubSeq(s, 1, Len(s) - Len(suffix)) ELSE s

DotGo == <<".", "g", "o">>
TestSuffix == <<"_", "t", "e", "s", "t", ".", "g", "o">>

TestFile_noTrim(path) == path \o TestSuffix

TestFile_sameExtension(path) == TrimSuffix(path, DotGo) \o DotGo

\* strings.TrimSuffix(file, ".go") + "_test.go"
TestFile(path) == TrimSuffix(path, DotGo) \o TestSuffix

\* --------------------------------------------------------------- generate
NoName == <<>>

HasTest_always(m) == TRUE

\* mode&gen.Test == gen.Test
HasTest(m) == "Test" \in m

myImportsOf(fs) ==
    <<RuntimeImport>> \o
    [i \in 1..Len(fs.Imports) |->
        IF fs.Imports[i].Name # NoName
        THEN fs.Imports[i].Name \o <<SP>> \o fs.Imports[i].Path
        ELSE fs.Imports[i].Path]

TestImports == <<<<"M">>, <<"P">>, <<"T">>, <<"S">>>>
BuildTags == <<<<"!skip_msgp_testing">>>>

testHeader(fs) ==
    writeImportHeader(writePkgHeader(writeBuildHeader(<<>>, BuildTags), fs.Package),
                      TestImports)

generate_bodyFirst(fs, m, dd) ==
    LET outbuf  == writeImportHeader(writePkgHeader(<<>>, fs.Package), dd)
        testbuf == IF HasTest(m)
                   THEN testHeader(fs) \o fs.PrintTo.tests
                   ELSE NoBuf
    IN [out   |-> outbuf \o fs.PrintTo.funcbuf \o fs.PrintTo.topics,
        tests |-> testbuf,
        err   |-> fs.PrintTo.err]

\* the result of generate once the map iteration order dd is fixed
generate(fs, m, dd) ==
    LET outbuf  == writeImportHeader(writePkgHeader(<<>>, fs.Package), dd)
        testbuf == IF HasTest(m)
                   THEN testHeader(fs) \o fs.PrintTo.tests
                   ELSE NoBuf
    IN [out   |-> IF fs.PrintTo.err = Nil
                  THEN outbuf \o fs.PrintTo.topics \o fs.PrintTo.funcbuf
                  ELSE outbuf,
        tests |-> testbuf,
        err   |-> fs.PrintTo.err]

\* ------------------------------------------------- external formatting tools
RECURSIVE DropRepeatedImports(_, _)
DropRepeatedImports(b, seen) ==
    IF Len(b) = 0 THEN <<>>
    ELSE IF b[1].kind = "import" /\ b[1].text \in seen
         THEN DropRepeatedImports(Tail(b), seen)
         ELSE <<b[1]>> \o DropRepeatedImports(Tail(b),
                  IF b[1].kind = "import" THEN seen \cup {b[1].text} ELSE seen)

\* imports.Process on success: gofmt layout, repeated import specs merged
Normalize(b) == DropRepeatedImports(b, {})

Has(text, c) == \E i \in DOMAIN text : text[i] = c

\* the section list of print.go:67-72, most specific prefix first
Section(text) ==
    IF Has(text, "P") \/ Has(text, "T") THEN 4
    ELSE IF Has(text, "M") THEN 3
    ELSE IF Has(text, "F") \/ Has(text, "S") THEN 1
    ELSE 2

OfSection(b, k) == SelectSeq(b, LAMBDA l : l.kind = "import" /\ Section(l.text) = k)

RECURSIVE Sections(_, _)
Sections(b, k) ==
    IF k > 4 THEN <<>>
    ELSE LET here == OfSection(b, k)
             rest == Sections(b, k + 1)
         IN IF Len(here) = 0 THEN rest
            ELSE IF Len(rest) = 0 THEN here
            ELSE here \o <<Line("blank", <<>>)>> \o rest

\* gci.WriteFormattedFiles on success: the import block rewritten by section
Group(b) ==
    LET open  == {i \in DOMAIN b : b[i].kind = "import("}
        close == {i \in DOMAIN b : b[i].kind = ")"}
    IN IF open = {} \/ close = {} THEN b
       ELSE LET o == CHOOSE i \in open : \A j \in open : i <= j
                c == CHOOSE i \in close : \A j \in close : i <= j
            IN SubSeq(b, 1, o) \o Sections(SubSeq(b, o + 1, c - 1), 1)
                               \o SubSeq(b, c, Len(b))

\* ------------------------------------------------------------------ state
VARIABLES
    file, f, mode, skipFormat,  \* the arguments of PrintFile
    disk0,                      \* the files before the call
    disk,                       \* the files: path -> [exists, bytes]
    pc,                         \* where PrintFile is
    out, tests,                 \* the buffers returned by generate
    myImports, dedup,           \* generate's import list, before and after dedupImports
    ret,                        \* what PrintFile returned (NoRet until it does)
    res,                        \* the channel made by goformat: the values it holds
    bgpc,                       \* where goformat's goroutine is
    fpc, fbytes, ferr,          \* per thread: position in format, bytes to write, result
    trace,                      \* per thread: its calls and log lines so far, in order
    bgAtReturn                  \* where the goroutine was in format when PrintFile returned

vars == <<file, f, mode, skipFormat, disk0, disk, pc, out, tests, myImports, dedup,
          ret, res, bgpc, fpc, fbytes, ferr, trace, bgAtReturn>>

inputs == <<file, f, mode, skipFormat, disk0>>

Threads == {"caller", "bg"}

ChanCap_unbuffered == 1 - 1

\* make(chan error, 1)
ChanCap == 1

NoFile == [exists |-> FALSE, bytes |-> <<>>]
File(b) == [exists |-> TRUE, bytes |-> b]
OldBytes == <<Line("old", <<>>)>>

Ev(ev, path, ok) == [ev |-> ev, path |-> path, ok |-> ok]

\* ----------------------------------------------------------------- inputs
Files == {<<"x", ".", "g", "o">>, <<"x", ".", "t">>}
\* import "M" and import a "F": Path.Value is the literal, quotes included
ImportSpecs ==
    {[Name |-> NoName, Path |-> <<DQ, "M", DQ>>],
     [Name |-> <<"a">>, Path |-> <<DQ, "F", DQ>>]}
ImportLists == UNION {[1..n -> ImportSpecs] : n \in 0..MaxImports}
PrintToResults ==
    [err     : {Nil, Err("gen", <<>>)},
     topics  : {<<>>, <<Line("topic", <<>>)>>},
     funcbuf : {<<Line("body", <<>>)>>},
     tests   : {<<Line("testbody", <<>>)>>}]
FileSets == [Package : {<<"sample">>}, Imports : ImportLists, PrintTo : PrintToResults]
Modes == SUBSET {"Test", "Marshal"}

Init ==
    /\ file \in Files
    /\ f \in FileSets
    /\ mode \in Modes
    /\ skipFormat \in BOOLEAN
    /\ disk0 \in {[p \in {file, TestFile(file)} |-> e] : e \in {NoFile, File(OldBytes)}}
    /\ disk = disk0
    /\ pc = "generate"
    /\ out = NoBuf
    /\ tests = NoBuf
    /\ myImports = <<>>
    /\ dedup = <<>>
    /\ ret = NoRet
    /\ res = <<>>
    /\ bgpc = "idle"
    /\ fpc = [t \in Threads |-> "idle"]
    /\ fbytes = [t \in Threads |-> <<>>]
    /\ ferr = [t \in Threads |-> NoRet]
    /\ trace = [t \in Threads |-> <<>>]
    /\ bgAtReturn = "running"

\* ----------------------------------------------------------------- format
FormatTarget(t) == IF t = "bg" THEN file ELSE TestFile(file)
FormatData(t) == IF t = "bg" THEN out ELSE tests

\* the thread is inside a call of format
InFormat(t) == IF t = "bg" THEN bgpc = "format" ELSE pc = "format"

SkipsFormat_never(skip) == FALSE

\* if skipFormat { ... }
SkipsFormat(skip) == skip

\* ioutil.WriteFile(path, data, 0600): the file it leaves and whether it failed.
\* It succeeds, or fails opening the file, or fails after truncating it.
WriteFile(old, data) ==
    {[failed |-> FALSE, entry |-> File(data)],
     [failed |-> TRUE, entry |-> old],
     [failed |-> TRUE, entry |-> File(<<>>)]}

Log(t, e) == trace' = [trace EXCEPT ![t] = Append(trace[t], e)]

FormatReturn(t, e) ==
    /\ fpc' = [fpc EXCEPT ![t] = "ret"]
    /\ ferr' = [ferr EXCEPT ![t] = e]

\* print.go:54-56
FormatSkip(t) ==
    /\ InFormat(t) /\ fpc[t] = "start"
    /\ SkipsFormat(skipFormat)
    /\ \E w \in WriteFile(disk[FormatTarget(t)], FormatData(t)) :
          /\ disk' = [disk EXCEPT ![FormatTarget(t)] = w.entry]
          /\ Log(t, Ev("write", FormatTarget(t), ~w.failed))
          /\ FormatReturn(t, IF w.failed THEN Err("write", FormatTarget(t)) ELSE Nil)
    /\ UNCHANGED <<inputs, bgAtReturn, pc, out, tests, myImports, dedup, ret, res, bgpc, fbytes>>

\* print.go:58-61
FormatProcess(t) ==
    /\ InFormat(t) /\ fpc[t] = "start"
    /\ ~SkipsFormat(skipFormat)
    /\ \E ok \in BOOLEAN :
          /\ Log(t, Ev("normalize", FormatTarget(t), ok))
          /\ IF ok
             THEN /\ fbytes' = [fbytes EXCEPT ![t] = Normalize(FormatData(t))]
                  /\ fpc' = [fpc EXCEPT ![t] = "write"]
                  /\ UNCHANGED ferr
             ELSE /\ FormatReturn(t, Err("normalize", FormatTarget(t)))
                  /\ UNCHANGED fbytes
    /\ UNCHANGED <<inputs, bgAtReturn, disk, pc, out, tests, myImports, dedup, ret, res, bgpc>>

Written_raw(t) == FormatData(t)

\* ioutil.WriteFile(file, out, 0600): the bytes written are the normalizer's
Written(t) == fbytes[t]

FormatWrite_unchecked(t) ==
    /\ InFormat(t) /\ fpc[t] = "write"
    /\ \E w \in WriteFile(disk[FormatTarget(t)], Written(t)) :
          /\ disk' = [disk EXCEPT ![FormatTarget(t)] = w.entry]
          /\ Log(t, Ev("write", FormatTarget(t), ~w.failed))
          /\ fpc' = [fpc EXCEPT ![t] = "group"]
          /\ UNCHANGED ferr
    /\ UNCHANGED <<inputs, bgAtReturn, pc, out, tests, myImports, dedup, ret, res, bgpc, fbytes>>

\* print.go:62-64
FormatWrite(t) ==
    /\ InFormat(t) /\ fpc[t] = "write"
    /\ \E w \in WriteFile(disk[FormatTarget(t)], Written(t)) :
          /\ disk' = [disk EXCEPT ![FormatTarget(t)] = w.entry]
          /\ Log(t, Ev("write", FormatTarget(t), ~w.failed))
          /\ IF w.failed
             THEN FormatReturn(t, Err("write", FormatTarget(t)))
             ELSE /\ fpc' = [fpc EXCEPT ![t] = "group"]
                  /\ UNCHANGED ferr
    /\ UNCHANGED <<inputs, bgAtReturn, pc, out, tests, myImports, dedup, ret, res, bgpc, fbytes>>

\* print.go:66-77
FormatGroup(t) ==
    /\ InFormat(t) /\ fpc[t] = "group"
    /\ \E ok \in BOOLEAN :
          /\ Log(t, Ev("group", FormatTarget(t), ok))
          /\ disk' = IF ok
                     THEN [disk EXCEPT ![FormatTarget(t)] =
                               File(Group(disk[FormatTarget(t)].bytes))]
                     ELSE disk
          /\ FormatReturn(t, IF ok THEN Nil ELSE Err("group", FormatTarget(t)))
    /\ UNCHANGED <<inputs, bgAtReturn, pc, out, tests, myImports, dedup, ret, res, bgpc, fbytes>>

format(t) == FormatSkip(t) \/ FormatProcess(t) \/ FormatWrite(t) \/ FormatGroup(t)

\* -------------------------------------------------------------- PrintFile
GenerateFailed_ignored(e) == FALSE

\* if err != nil { return err }   (print.go:27-29)
GenerateFailed(e) == e # Nil

HasTests_never(t) == FALSE

\* if tests != nil   (print.go:38)
HasTests(t) == t # NoBuf

TestFormatFailed_ignored(e) == FALSE

\* if err != nil { return err }   (print.go:41-43)
TestFormatFailed(e) == e # Nil

Received_dropped(e) == Nil

\* err = <-res; return err or nil   (print.go:46-50)
Received(e) == IF e # Nil THEN e ELSE Nil

\* print.go:26-29
Generate ==
    /\ pc = "generate"
    /\ myImports' = myImportsOf(f)
    /\ \E dd \in dedupImports(myImportsOf(f)) :
          LET g == generate(f, mode, dd)
          IN /\ dedup' = dd
             /\ out' = g.out
             /\ tests' = g.tests
             /\ IF GenerateFailed(g.err)
                THEN /\ ret' = g.err
                     /\ pc' = "done"
                     /\ bgAtReturn' = fpc["bg"]
                     /\ Log("caller", Ev("return", <<>>, FALSE))
                ELSE /\ pc' = "goformat"
                     /\ UNCHANGED <<ret, trace, bgAtReturn>>
    /\ UNCHANGED <<inputs, disk, res, bgpc, fpc, fbytes, ferr>>

\* print.go:37-40 and 80-87: make the channel, start the goroutine, and enter
\* format for the test file when there is a test buffer
GoFormat ==
    /\ pc = "goformat"
    /\ res' = <<>>
    /\ bgpc' = "format"
    /\ IF HasTests(tests)
       THEN /\ pc' = "format"
            /\ fpc' = [t \in Threads |-> "start"]
       ELSE /\ pc' = "recv"
            /\ fpc' = [fpc EXCEPT !["bg"] = "start"]
    /\ UNCHANGED <<inputs, bgAtReturn, disk, out, tests, myImports, dedup, ret, fbytes, ferr, trace>>

TestFormatDone_joins ==
    /\ pc = "format" /\ fpc["caller"] = "ret"
    /\ IF TestFormatFailed(ferr["caller"])
       THEN /\ Len(res) > 0
            /\ res' = Tail(res)
            /\ ret' = ferr["caller"]
            /\ pc' = "done"
            /\ bgAtReturn' = fpc["bg"]
            /\ trace' = [trace EXCEPT !["caller"] =
                             trace["caller"] \o <<Ev("recv", file, Head(res) = Nil),
                                                  Ev("return", <<>>, FALSE)>>]
       ELSE /\ Log("caller", Ev("log", TestFile(file), TRUE))
            /\ pc' = "recv"
            /\ UNCHANGED <<ret, bgAtReturn, res>>
    /\ UNCHANGED <<inputs, disk, out, tests, myImports, dedup, bgpc, fpc, fbytes, ferr>>

\* print.go:40-45
TestFormatDone ==
    /\ pc = "format" /\ fpc["caller"] = "ret"
    /\ IF TestFormatFailed(ferr["caller"])
       THEN /\ ret' = ferr["caller"]
            /\ pc' = "done"
            /\ bgAtReturn' = fpc["bg"]
            /\ Log("caller", Ev("return", <<>>, FALSE))
       ELSE /\ Log("caller", Ev("log", TestFile(file), TRUE))
            /\ pc' = "recv"
            /\ UNCHANGED <<ret, bgAtReturn>>
    /\ UNCHANGED <<inputs, disk, out, tests, myImports, dedup, res, bgpc, fpc, fbytes, ferr>>

\* print.go:46-50
Receive ==
    /\ pc = "recv"
    /\ Len(res) > 0
    /\ res' = Tail(res)
    /\ ret' = Received(Head(res))
    /\ pc' = "done"
    /\ bgAtReturn' = fpc["bg"]
    /\ trace' = [trace EXCEPT !["caller"] =
                     trace["caller"] \o <<Ev("recv", file, Head(res) = Nil),
                                          Ev("return", <<>>, Head(res) = Nil)>>]
    /\ UNCHANGED <<inputs, disk, out, tests, myImports, dedup, bgpc, fpc, fbytes, ferr>>

\* ------------------------------------------------- the goroutine of goformat
BgSend_onlyErrors ==
    /\ bgpc = "format" /\ fpc["bg"] = "ret"
    /\ Len(res) < ChanCap
    /\ IF ferr["bg"] # Nil
       THEN /\ res' = Append(res, ferr["bg"])
            /\ Log("bg", Ev("send", file, FALSE))
       ELSE UNCHANGED <<res, trace>>
    /\ bgpc' = "log"
    /\ UNCHANGED <<inputs, bgAtReturn, disk, pc, out, tests, myImports, dedup, ret, fpc, fbytes, ferr>>

\* end <- format(file, data, skipFormat)   (print.go:83)
BgSend ==
    /\ bgpc = "format" /\ fpc["bg"] = "ret"
    /\ Len(res) < ChanCap
    /\ res' = Append(res, ferr["bg"])
    /\ bgpc' = "log"
    /\ Log("bg", Ev("send", file, ferr["bg"] = Nil))
    /\ UNCHANGED <<inputs, bgAtReturn, disk, pc, out, tests, myImports, dedup, ret, fpc, fbytes, ferr>>

\* infof(">>> Wrote and formatted ...", file)   (print.go:84)
BgLog ==
    /\ bgpc = "log"
    /\ Log("bg", Ev("log", file, TRUE))
    /\ bgpc' = "done"
    /\ UNCHANGED <<inputs, bgAtReturn, disk, pc, out, tests, myImports, dedup, ret, res, fpc, fbytes, ferr>>

Background == format("bg") \/ BgSend \/ BgLog

Next ==
    \/ Generate
    \/ GoFormat
    \/ format("caller")
    \/ TestFormatDone
    \/ Receive
    \/ Background

Spec == Init /\ [][Next]_vars

\* the goroutine is scheduled and the calls it makes return
FairSpec == Spec /\ WF_vars(Background)

\* ================================================================= claims
Range(q) == {q[i] : i \in DOMAIN q}
Happened(t, e) == \E i \in DOMAIN trace[t] : trace[t][i] = e
ToolCalls(t) == {i \in DOMAIN trace[t] : trace[t][i].ev \in {"normalize", "write", "group"}}
IsError(e) == e # Nil /\ e # NoRet
ImportTexts(b) == {i \in DOMAIN b : b[i].kind = "import"}

\* C1: when the body generator fails, PrintFile returns that error, the
\* goroutine is never started, format is never entered, and no file is
\* touched during or after the call.
C1_GenerateErrorWritesNothing ==
    (pc # "generate" /\ f.PrintTo.err # Nil) =>
        /\ pc = "done" /\ ret = f.PrintTo.err
        /\ bgpc = "idle"
        /\ \A t \in Threads : fpc[t] = "idle" /\ ToolCalls(t) = {}
        /\ disk = disk0

C1_Witness ==
    /\ pc = "done" /\ IsError(f.PrintTo.err) /\ ret = f.PrintTo.err
    /\ "Test" \in mode /\ disk = disk0

\* C2: when format of the test file fails, PrintFile returns exactly the
\* test file's error, whatever the goroutine's format of the main file did
\* or is still doing.
C2_TestErrorReturned ==
    (pc = "done" /\ "Test" \in mode /\ IsError(ferr["caller"])) =>
        /\ ret = ferr["caller"]
        /\ ret.path = TestFile(file)
        /\ ret # ferr["bg"]

C2_Witness ==
    /\ pc = "done" /\ IsError(ferr["caller"]) /\ ret = ferr["caller"]
    /\ IsError(ferr["bg"]) /\ bgpc = "done"

\* the other two outcomes of the goroutine at the time of the return
C2_WitnessMainRunning ==
    /\ pc = "done" /\ IsError(ferr["caller"]) /\ ret = ferr["caller"]
    /\ fpc["bg"] = "start"

C2_WitnessMainSucceeded ==
    /\ pc = "done" /\ IsError(ferr["caller"]) /\ ret = ferr["caller"]
    /\ ferr["bg"] = Nil

\* format for thread t returned nil after writing its file (and, unless
\* skipFormat, after the normalizer and the grouping tool succeeded)
FormattedOk(t) ==
    /\ fpc[t] = "ret" /\ ferr[t] = Nil
    /\ Happened(t, Ev("write", FormatTarget(t), TRUE))
    /\ ~skipFormat => /\ Happened(t, Ev("normalize", FormatTarget(t), TRUE))
                      /\ Happened(t, Ev("group", FormatTarget(t), TRUE))
    /\ \A i \in DOMAIN trace[t] : trace[t][i].ev \in {"normalize", "write", "group"}
                                     => trace[t][i].ok
    /\ disk[FormatTarget(t)].exists

\* C3: when generate succeeds and the test file is absent or formatted
\* without error, PrintFile returns only after the goroutine's format call
\* has finished and returns that call's result; so it returns nil only if
\* every requested file was formatted and written without error.
C3_ReturnsMainResult ==
    (pc = "done" /\ f.PrintTo.err = Nil /\ ~IsError(ferr["caller"])) =>
        /\ fpc["bg"] = "ret"
        /\ ret = ferr["bg"]
        /\ ret = Nil => /\ FormattedOk("bg")
                        /\ "Test" \in mode => FormattedOk("caller")

C3_Witness ==
    /\ pc = "done" /\ f.PrintTo.err = Nil /\ "Test" \in mode /\ ferr["caller"] = Nil
    /\ IsError(ferr["bg"]) /\ ret = ferr["bg"]

C3_WitnessNil ==
    /\ pc = "done" /\ ret = Nil /\ "Test" \in mode /\ ~skipFormat
    /\ FormattedOk("bg") /\ FormattedOk("caller")

\* C4: the goroutine's send never finds the channel full, and once started
\* the goroutine reaches its end, also when PrintFile returned early and
\* nobody receives.
C4_BackgroundCompletes ==
    /\ []((bgpc = "format" /\ fpc["bg"] = "ret") => Len(res) < ChanCap)
    /\ ((bgpc # "idle") ~> (bgpc = "done"))

C4_Witness ==
    /\ bgpc = "done" /\ pc = "done" /\ IsError(ferr["caller"])
    /\ Len(res) = 1

\* C5: in the implementation buffer no two import lines are equal.
C5_ImportLinesDistinct ==
    pc # "generate" =>
        \A i, j \in ImportTexts(out) : out[i].text = out[j].text => i = j

\* C6: with skipFormat and PrintFile returning nil, the implementation path
\* holds exactly the assembled main buffer, the test path (when the flag is
\* set) exactly the assembled test buffer, and neither the normalizer nor
\* the grouping tool was called.
C6_SkipFormatVerbatim ==
    (skipFormat /\ pc = "done" /\ ret = Nil) =>
        /\ out = writeImportHeader(writePkgHeader(<<>>, f.Package), dedup)
                    \o f.PrintTo.topics \o f.PrintTo.funcbuf
        /\ disk[file] = File(out)
        /\ "Test" \in mode =>
              /\ tests = testHeader(f) \o f.PrintTo.tests
              /\ disk[TestFile(file)] = File(tests)
        /\ \A t \in Threads : \A i \in DOMAIN trace[t] :
              trace[t][i].ev \notin {"normalize", "group"}

C6_Witness ==
    /\ skipFormat /\ pc = "done" /\ ret = Nil /\ "Test" \in mode
    /\ disk0[file] = File(OldBytes)
    /\ disk[file] = File(out) /\ disk[TestFile(file)] = File(tests)
    /\ Len(f.PrintTo.topics) > 0

\* C7: a "Wrote and formatted" line for a path is never emitted when the
\* format call for that path returned an error.
C7_LogOnlyAfterSuccess ==
    \A t \in Threads :
        Happened(t, Ev("log", FormatTarget(t), TRUE)) => ferr[t] = Nil

\* C8: when there is a test buffer, PrintFile receives from the channel only
\* after the test file was written without error and its log line emitted.
C8_TestFileBeforeReceive ==
    (tests # NoBuf /\ (pc = "recv" \/ Happened("caller", Ev("recv", file, TRUE))
                                   \/ Happened("caller", Ev("recv", file, FALSE)))) =>
        /\ FormattedOk("caller")
        /\ \E i, j \in DOMAIN trace["caller"] :
              /\ i < j
              /\ trace["caller"][i] = Ev("write", TestFile(file), TRUE)
              /\ trace["caller"][j] = Ev("log", TestFile(file), TRUE)
              /\ \A k \in DOMAIN trace["caller"] : trace["caller"][k].ev = "recv" => j < k

C8_Witness ==
    /\ tests # NoBuf /\ pc = "done"
    /\ \E k \in DOMAIN trace["caller"] : trace["caller"][k].ev = "recv"
    /\ Happened("caller", Ev("log", TestFile(file), TRUE))

\* both orders of the two writes
C8_WitnessTestFirst ==
    /\ Happened("caller", Ev("write", TestFile(file), TRUE))
    /\ bgpc = "format" /\ trace["bg"] = <<>>

C8_WitnessMainFirst ==
    /\ Happened("bg", Ev("write", file, TRUE))
    /\ pc = "format" /\ trace["caller"] = <<>>

\* C9: generate returns a test buffer exactly when the Test bit is set; the
\* test buffer begins with the build-constraint header; the implementation
\* buffer holds no build-constraint line.
C9_BuildHeaderOnlyInTests ==
    pc # "generate" =>
        /\ (tests # NoBuf) <=> ("Test" \in mode)
        /\ tests # NoBuf =>
              /\ Len(tests) >= 3
              /\ tests[1] = Line("//go:build", <<"!skip_msgp_testing">>)
              /\ tests[2] = Line("// +build", <<"!skip_msgp_testing">>)
              /\ tests[3] = Line("blank", <<>>)
        /\ \A i \in DOMAIN out : out[i].kind \notin {"//go:build", "// +build"}

C9_Witness ==
    /\ pc # "generate" /\ "Test" \in mode /\ tests # NoBuf
    /\ tests[1].kind = "//go:build"

C9_WitnessNoTests ==
    /\ pc # "generate" /\ "Marshal" \in mode /\ "Test" \notin mode /\ tests = NoBuf

IsDedupOf(r, imp) ==
    /\ Range(r) = Range(imp)
    /\ \A i, j \in DOMAIN r : r[i] = r[j] => i = j
    /\ Len(r) = Cardinality(Range(imp))

\* C10: every list dedupImports can return holds exactly the distinct
\* elements of its input, each once; the empty list yields the empty list.
C10_DedupIsDistinctSet ==
    /\ pc # "generate" =>
          /\ IsDedupOf(dedup, myImports)
          /\ \A r \in dedupImports(myImports) : IsDedupOf(r, myImports)
    /\ \A r \in dedupImports(<<>>) : r = <<>>

C10_Witness ==
    /\ pc # "generate"
    /\ Len(dedup) < Len(myImports)
    /\ Len(dedup) >= 2
    /\ dedup[1] # myImports[1]

\* the extension of a path: from its last dot on (empty without a dot)
Dots(path) == {i \in DOMAIN path : path[i] = "."}
LastDot(path) == CHOOSE i \in Dots(path) : \A j \in Dots(path) : j <= i
Ext(path) == IF Dots(path) = {} THEN <<>> ELSE SubSeq(path, LastDot(path), Len(path))
StripExt(path) == SubSeq(path, 1, Len(path) - Len(Ext(path)))

\* the paths the caller's format call was given
CallerPaths ==
    {trace["caller"][i].path : i \in {k \in DOMAIN trace["caller"] :
        trace["caller"][k].ev \in {"normalize", "write", "group", "log"}}}

\* C11 (as stated): the test file goes to the target path without its
\* extension, followed by "_test." and that same extension.
C11_TestPathKeepsExtension ==
    \A p \in CallerPaths :
        p = StripExt(file) \o <<"_", "t", "e", "s", "t">> \o Ext(file)

\* C11 (amended): the test file goes to the target path with a trailing ".go"
\* removed, if there is one, followed by "_test.go"; for a path ending in
\* ".go" that is the path without its extension followed by "_test." and the
\* extension, for any other path it is the whole path followed by "_test.go".
C11_TestPathGoSuffix ==
    \A p \in CallerPaths :
        /\ Ext(file) = <<".", "g", "o">> =>
              p = StripExt(file) \o <<"_", "t", "e", "s", "t">> \o Ext(file)
        /\ Ext(file) # <<".", "g", "o">> =>
              p = file \o <<"_", "t", "e", "s", "t", ".", "g", "o">>

C11_Witness ==
    /\ Ext(file) # <<".", "g", "o">>
    /\ Happened("caller", Ev("write", file \o <<"_", "t", "e", "s", "t", ".", "g", "o">>, TRUE))
    /\ Happened("caller", Ev("log", file \o <<"_", "t", "e", "s", "t", ".", "g", "o">>, TRUE))

C11_WitnessGo ==
    /\ Ext(file) = <<".", "g", "o">>
    /\ Happened("caller", Ev("write", <<"x", "_", "t", "e", "s", "t", ".", "g", "o">>, TRUE))

\* C12: the goroutine's format call and the caller's format call are never
\* given the same path, whether or not the target path ends in ".go".
C12_DistinctTargets ==
    \A i \in ToolCalls("caller") : \A j \in ToolCalls("bg") :
        trace["caller"][i].path # trace["bg"][j].path

C12_Witness ==
    /\ Ext(file) # <<".", "g", "o">>
    /\ \E i \in ToolCalls("caller") : trace["caller"][i].ev = "write"
    /\ \E j \in ToolCalls("bg") : trace["bg"][j].ev = "write"
    /\ disk[file] # disk[TestFile(file)]

C12_WitnessGo ==
    /\ Ext(file) = <<".", "g", "o">>
    /\ \E i \in ToolCalls("caller") : trace["caller"][i].ev = "write"
    /\ \E j \in ToolCalls("bg") : trace["bg"][j].ev = "write"

Idx(b, kind) == {i \in DOMAIN b : b[i].kind = kind}

\* the layout of one generated buffer
HeaderOrder(b, withBuild) ==
    /\ \A k \in {"package", "marker", "import(", ")"} : Cardinality(Idx(b, k)) = 1
    /\ \A p \in Idx(b, "package") :
          /\ p + 1 \in Idx(b, "marker")
          /\ IF withBuild
             THEN Idx(b, "//go:build") = {1} /\ Idx(b, "// +build") = {2} /\ p = 4
             ELSE p = 1
          /\ \A o \in Idx(b, "import(") : \A c \in Idx(b, ")") :
                /\ p + 1 < o /\ o < c
                /\ \A i \in Idx(b, "import") : o < i /\ i < c
                /\ \A i \in Idx(b, "topic") \cup Idx(b, "body") \cup Idx(b, "testbody") :
                      c < i

\* C13: in each buffer of generate the marker line is the line after the
\* package clause; the test buffer has build header, package header, import
\* header in that order, the implementation buffer package header, import
\* header; topics and body come after the import header.
C13_HeaderOrder ==
    pc # "generate" =>
        /\ HeaderOrder(out, FALSE)
        /\ tests # NoBuf => HeaderOrder(tests, TRUE)

C13_Witness ==
    /\ pc # "generate" /\ tests # NoBuf /\ f.PrintTo.err = Nil
    /\ Idx(out, "topic") # {} /\ Idx(out, "body") # {} /\ Idx(tests, "testbody") # {}
    /\ Cardinality(Idx(out, "import")) >= 2

\* the calls format made for thread t, in order
StageEvents(t) ==
    SelectSeq(trace[t], LAMBDA e : e.ev \in {"normalize", "write", "group"})

StageNames == <<"normalize", "write", "group">>

\* C14: without skipFormat, format calls the normalizer, then WriteFile, then
\* the grouping tool; it stops at the first call that fails and returns that
\* call's error, and returns nil exactly when all three succeeded.
C14_StagesInOrder ==
    ~skipFormat =>
        \A t \in Threads :
            LET s == StageEvents(t)
            IN /\ Len(s) <= 3
               /\ \A i \in DOMAIN s :
                     /\ s[i].ev = StageNames[i]
                     /\ s[i].path = FormatTarget(t)
                     /\ i < Len(s) => s[i].ok
               /\ fpc[t] = "ret" =>
                     /\ Len(s) >= 1
                     /\ ferr[t] = Nil <=> (Len(s) = 3 /\ s[3].ok)
                     /\ ~s[Len(s)].ok => ferr[t] = Err(s[Len(s)].ev, FormatTarget(t))
                     /\ s[Len(s)].ok => Len(s) = 3

C14_Witness ==
    /\ ~skipFormat /\ fpc["bg"] = "ret"
    /\ ferr["bg"] = Err("write", file)
    /\ Len(StageEvents("bg")) = 2

C14_WitnessNormalizeFails ==
    /\ ~skipFormat /\ fpc["caller"] = "ret"
    /\ ferr["caller"] = Err("normalize", TestFile(file))
    /\ Len(StageEvents("caller")) = 1 /\ disk = disk0

C14_WitnessGroupFails ==
    /\ ~skipFormat /\ fpc["bg"] = "ret"
    /\ ferr["bg"] = Err("group", file)
    /\ Len(StageEvents("bg")) = 3

C14_WitnessAllSucceed ==
    /\ ~skipFormat /\ fpc["bg"] = "ret" /\ fpc["caller"] = "ret"
    /\ ferr["bg"] = Nil /\ ferr["caller"] = Nil

\* C15: without skipFormat, after format fails in the normalizer the target
\* path is as it was before the call; after it fails in the grouping tool the
\* path holds the normalizer's output, which was written and is not rolled
\* back, and not the buffer as generate assembled it.
C15_FileAfterFailure ==
    ~skipFormat =>
        \A t \in Threads :
            /\ (fpc[t] = "ret" /\ ferr[t] = Err("normalize", FormatTarget(t))) =>
                  disk[FormatTarget(t)] = disk0[FormatTarget(t)]
            /\ (fpc[t] = "ret" /\ ferr[t] = Err("group", FormatTarget(t))) =>
                  /\ disk[FormatTarget(t)] = File(fbytes[t])
                  /\ fbytes[t] = Normalize(FormatData(t))
                  /\ \A i, j \in ImportTexts(disk[FormatTarget(t)].bytes) :
                        disk[FormatTarget(t)].bytes[i].text
                            = disk[FormatTarget(t)].bytes[j].text => i = j
                  /\ fbytes[t] # FormatData(t) =>
                        disk[FormatTarget(t)].bytes # FormatData(t)

C15_Witness ==
    /\ ~skipFormat /\ fpc["bg"] = "ret" /\ ferr["bg"] = Err("group", file)
    /\ disk0[file] = File(OldBytes)
    /\ fbytes["bg"] # out
    /\ disk[file] = File(fbytes["bg"])

C15_WitnessNormalizeFails ==
    /\ ~skipFormat /\ fpc["bg"] = "ret" /\ ferr["bg"] = Err("normalize", file)
    /\ disk0[file] = File(OldBytes) /\ disk[file] = File(OldBytes)
    /\ fpc["caller"] = "ret" /\ ferr["caller"] = Nil

Receives == {i \in DOMAIN trace["caller"] : trace["caller"][i].ev = "recv"}
Sends == {i \in DOMAIN trace["bg"] : trace["bg"][i].ev = "send"}

\* C16: when format of the test file fails, PrintFile returns its error
\* without receiving from the channel: the goroutine may still be inside
\* format at that moment, and what it sends stays in the channel.
C16_EarlyReturnDoesNotJoin ==
    (pc = "done" /\ IsError(ferr["caller"])) =>
        /\ ret = ferr["caller"]
        /\ Receives = {}
        /\ bgAtReturn \in {"start", "write", "group", "ret"}
        /\ Len(res) = Cardinality(Sends)

\* PrintFile returned the test file's error before the goroutine's format
\* call had done anything; the implementation file was written and its log
\* line emitted afterwards
C16_Witness ==
    /\ pc = "done" /\ IsError(ret) /\ ret = ferr["caller"]
    /\ bgAtReturn = "start"
    /\ Happened("bg", Ev("write", file, TRUE))
    /\ ferr["bg"] = Nil /\ disk[file].exists
    /\ Happened("bg", Ev("log", file, TRUE))

C16_WitnessStillRunning ==
    /\ pc = "done" /\ IsError(ret) /\ ret = ferr["caller"]
    /\ bgpc = "format" /\ fpc["bg"] = "start" /\ trace["bg"] = <<>>

ChannelOnce ==
    /\ Cardinality(Sends) <= 1
    /\ Cardinality(Receives) <= 1
    /\ Len(res) <= 1
    /\ Len(res) = Cardinality(Sends) - Cardinality(Receives)
    /\ bgpc \in {"log", "done"} <=> Cardinality(Sends) = 1
    /\ f.PrintTo.err # Nil => Sends = {} /\ Receives = {}
    /\ (pc = "done" /\ f.PrintTo.err = Nil) =>
          (Cardinality(Receives) = 1 <=> ~IsError(ferr["caller"]))

\* C17: in a PrintFile call whose generate succeeds the goroutine sends on
\* the channel exactly once and PrintFile receives at most once; the channel
\* never holds more than one value; PrintFile has received once when it
\* returns exactly if the test file was absent or formatted without error.
C17_ChannelOneShot ==
    /\ []ChannelOnce
    /\ (bgpc # "idle") ~> (Cardinality(Sends) = 1)

C17_Witness ==
    /\ pc = "done" /\ tests # NoBuf /\ ferr["caller"] = Nil
    /\ Cardinality(Sends) = 1 /\ Cardinality(Receives) = 1 /\ res = <<>>
    /\ bgpc = "done"

C17_WitnessNotReceived ==
    /\ pc = "done" /\ IsError(ferr["caller"])
    /\ Cardinality(Sends) = 1 /\ Receives = {} /\ Len(res) = 1

\* the number of lines of the implementation buffer's two headers
HeaderLen == 3 + 1 + Len(dedup) + 2

\* C18: when the body generator succeeds the main buffer is its headers, then
\* the topics output, then the body output; when it fails the main buffer is
\* its package and import headers only.
C18_TopicsThenBody ==
    pc # "generate" =>
        /\ Len(out) >= HeaderLen
        /\ out[HeaderLen - 1].kind = ")"
        /\ \A i \in 1..HeaderLen : out[i].kind \notin {"topic", "body"}
        /\ f.PrintTo.err = Nil =>
              /\ Len(out) = HeaderLen + Len(f.PrintTo.topics) + Len(f.PrintTo.funcbuf)
              /\ SubSeq(out, HeaderLen + 1, HeaderLen + Len(f.PrintTo.topics))
                    = f.PrintTo.topics
              /\ SubSeq(out, HeaderLen + Len(f.PrintTo.topics) + 1, Len(out))
                    = f.PrintTo.funcbuf
        /\ f.PrintTo.err # Nil =>
              /\ Len(out) = HeaderLen
              /\ Idx(out, "topic") = {} /\ Idx(out, "body") = {}

C18_Witness ==
    /\ pc # "generate" /\ f.PrintTo.err = Nil
    /\ Len(f.PrintTo.topics) > 0 /\ Len(f.PrintTo.funcbuf) > 0
    /\ \E i \in Idx(out, "topic") : \E j \in Idx(out, "body") : HeaderLen < i /\ i < j

C18_WitnessFailure ==
    /\ pc # "generate" /\ f.PrintTo.err # Nil
    /\ Len(f.PrintTo.topics) > 0 /\ Len(out) = HeaderLen

====
